---- MODULE Spec2Model ----
(***************************************************************************)
(* Accumulator tree store: the two global LRU caches of AccumulatorCache   *)
(* (content cache: hash -> node, index cache: (accumulator id, index) ->   *)
(* hash) and the in-memory MockAccumulatorStore behind the                 *)
(* AccumulatorReader / AccumulatorWriter traits.                           *)
(* Source: core/accumulator/src/tree_store/mod.rs                          *)
(***************************************************************************)
EXTENDS Integers, Sequences, FiniteSets, TLC

(***************************************************************************)
(* Bounds of the model.                                                    *)
(***************************************************************************)
\* capacity of each global cache (LruCache::new(MAC_CACHE_SIZE)), scaled down
MAC_CACHE_SIZE == 2
\* leaf payload hashes are 1..MaxLeaf
MaxLeaf == 2
\* accumulator identities are 1..MaxAcc
MaxAcc == 2
\* longest Vec handed to a batch operation
MaxBatch == 2
\* threads calling concurrently
MaxThreads == 2

(***************************************************************************)
(* HashValue and AccumulatorNode.                                          *)
(***************************************************************************)
\* HashValue::zero()
ZeroHash == 0
\* the fixed, well-known hash of the Empty node
PlaceholderHash == 1

\* NodeIndex: two positions; a position is opaque to the caches and the store
NodeIndexes == {0, 1}

new_empty == [tag |-> "Empty"]
Leaves == [tag : {"Leaf"}, index : NodeIndexes, leaf_hash : 1..MaxLeaf]

\* hash(Leaf) = H(leaf_hash), domain separated: residue 2 modulo 3
LeafHash(leaf_hash) == 3 * leaf_hash + 2
\* hash(Internal) = H(left_hash || right_hash), domain separated: residue 0
InternalHash(left, right) == 3 * (left * (3 * MaxLeaf + 3) + right)

Internals == [tag : {"Internal"}, index : {1},
              left : {LeafHash(1)}, right : {LeafHash(MaxLeaf)}]

AccumulatorNode == {new_empty} \cup Leaves \cup Internals

\* AccumulatorNode::hash(): the content hash, a function of variant and contents
NodeHash(node) ==
    CASE node.tag = "Empty" -> PlaceholderHash
      [] node.tag = "Leaf" -> LeafHash(node.leaf_hash)
      [] node.tag = "Internal" -> InternalHash(node.left, node.right)

\* AccumulatorNode::index(), defined for Leaf and Internal
NodeIndexOf(node) == node.index

HashValue == {ZeroHash} \cup {NodeHash(n) : n \in AccumulatorNode}

AccumulatorIds == 1..MaxAcc

\* NodeCacheKey that compares by position only
NodeCacheKey_index_only(accumulator_id, index) ==
    [id |-> ZeroHash, index |-> index]

\* NodeCacheKey::new
NodeCacheKey(accumulator_id, index) == [id |-> accumulator_id, index |-> index]

(***************************************************************************)
(* LruCache: a sequence of entries, least recently used first.             *)
(***************************************************************************)
Keys(cache) == {cache[i].key : i \in 1..Len(cache)}

Contains(cache, k) == k \in Keys(cache)

\* the value stored under k (k is cached); does not touch the order
Peek(cache, k) ==
    LET i == CHOOSE j \in 1..Len(cache) : cache[j].key = k IN cache[i].value

Without(cache, k) == SelectSeq(cache, LAMBDA e : e.key # k)

\* LruCache::peek in the place of get: a hit leaves the order alone
LruGet_peek(cache, k) == cache

\* LruCache::get: a hit makes k the most recently used entry
LruGet(cache, k) ==
    IF Contains(cache, k)
    THEN Append(Without(cache, k), [key |-> k, value |-> Peek(cache, k)])
    ELSE cache

\* LruCache::put that drops the most recently used entry of a full cache
LruPut_evict_newest(cache, k, v) ==
    IF Contains(cache, k)
    THEN Append(Without(cache, k), [key |-> k, value |-> v])
    ELSE IF Len(cache) >= MAC_CACHE_SIZE
         THEN Append(SubSeq(cache, 1, Len(cache) - 1), [key |-> k, value |-> v])
         ELSE Append(cache, [key |-> k, value |-> v])

\* LruCache::put that lets a full cache grow
LruPut_no_evict(cache, k, v) ==
    Append(Without(cache, k), [key |-> k, value |-> v])

\* LruCache::put that keeps the value of a key that is cached already
LruPut_keep_old(cache, k, v) ==
    IF Contains(cache, k)
    THEN Append(Without(cache, k), [key |-> k, value |-> Peek(cache, k)])
    ELSE IF Len(cache) < MAC_CACHE_SIZE
         THEN Append(cache, [key |-> k, value |-> v])
         ELSE Append(Tail(cache), [key |-> k, value |-> v])

\* LruCache::put: an existing key is overwritten and becomes most recently
\* used; a new key in a full cache first drops the least recently used entry
LruPut(cache, k, v) ==
    IF Contains(cache, k)
    THEN Append(Without(cache, k), [key |-> k, value |-> v])
    ELSE IF Len(cache) >= MAC_CACHE_SIZE
         THEN Append(Tail(cache), [key |-> k, value |-> v])
         ELSE Append(cache, [key |-> k, value |-> v])

\* sequences of length 0..MaxBatch over S
BatchOf(S) == UNION {[1..n -> S] : n \in 0..MaxBatch}

Range(s) == {s[i] : i \in 1..Len(s)}

(***************************************************************************)
(* Recency bookkeeping (history): the cached keys in order of last use,    *)
(* kept by the operations themselves and not read by them.                 *)
(***************************************************************************)
Touch(used, k) == Append(SelectSeq(used, LAMBDA x : x # k), k)

RECURSIVE TouchAll(_, _)
TouchAll(used, ks) ==
    IF ks = <<>> THEN used ELSE TouchAll(Touch(used, Head(ks)), Tail(ks))

Restrict(used, S) == SelectSeq(used, LAMBDA x : x \in S)

(***************************************************************************)
(* State.                                                                  *)
(***************************************************************************)
VARIABLES
    GLOBAL_NODE_CACHE,        \* LruCache<HashValue, AccumulatorNode>
    GLOBAL_NODE_INDEX_CACHE,  \* LruCache<NodeCacheKey, HashValue>
    node_store,               \* MockAccumulatorStore: HashMap<HashValue, AccumulatorNode>
    ret,                      \* the call that has just returned, and its result
    node_used,                \* history: content-cache keys by last use
    index_used,               \* history: index-cache keys by last use
    saved,                    \* history: per hash, the nodes saved to the store
                              \* since the hash was last deleted, by last save
    pc,                       \* per thread: the call it is in and how far it got
    lock,                     \* per Mutex: the thread holding the guard, 0 if free
    order                     \* history: the threads in the order they locked

vars == <<GLOBAL_NODE_CACHE, GLOBAL_NODE_INDEX_CACHE, node_store, ret,
          node_used, index_used, saved, pc, lock, order>>

Threads == 1..MaxThreads

\* the three Mutexes: the two global caches and the store's node_store
Locks == {"node", "index", "store"}

\* a call: its name and its arguments, each kind of argument in its own field
Operands(op, id, index, hashes, nodes) ==
    [op |-> op, id |-> id, index |-> index, hashes |-> hashes, nodes |-> nodes]

\* what a call has returned so far: the nodes found, the hash found, a failure
NoResult == [got |-> <<>>, hash |-> 0, err |-> FALSE]

Idle ==
    [st |-> "idle", call |-> Operands("", 0, <<>>, <<>>, <<>>), left |-> 0,
     out |-> NoResult]

\* a call made while no thread is inside a call
Alone == UNCHANGED <<pc, lock, order>>

\* no call is in progress; hits are the keys the latest call hit in the cache
\* named by after, when that call was a lookup
NoCall == [op |-> "none", after |-> "", hits |-> {}]

EmptyMap == [h \in {} |-> new_empty]

Init ==
    /\ GLOBAL_NODE_CACHE = <<>>
    /\ GLOBAL_NODE_INDEX_CACHE = <<>>
    /\ node_store = EmptyMap
    /\ ret = NoCall
    /\ node_used = <<>>
    /\ index_used = <<>>
    /\ saved = [h \in HashValue |-> <<>>]
    /\ pc = [t \in Threads |-> Idle]
    /\ lock = [l \in Locks |-> 0]
    /\ order = <<>>

\* the keys a lookup found cached, each made most recently used by its get
LastHits(r) ==
    IF r.op = "get_node" /\ r.hit THEN {r.arg}
    ELSE IF r.op = "get_nodes" THEN Range(r.hits)
    ELSE IF r.op = "get_node_hash" /\ r.hit THEN {[id |-> r.arg[1], index |-> r.arg[2]]}
    ELSE {}

\* the caller has taken the result; the next call starts from here
Return ==
    /\ ret.op # "none"
    /\ ret' = [op |-> "none",
               after |-> IF LastHits(ret) = {} THEN ""
                         ELSE IF ret.op = "get_node_hash" THEN "index" ELSE "node",
               hits |-> LastHits(ret)]
    /\ UNCHANGED <<GLOBAL_NODE_CACHE, GLOBAL_NODE_INDEX_CACHE, node_store,
                   node_used, index_used, saved>>
    /\ Alone

(***************************************************************************)
(* AccumulatorCache, content cache.                                        *)
(***************************************************************************)
\* the keys of hashes that hit, in request order
HitKeys(cache, hashes) == SelectSeq(hashes, LAMBDA h : Contains(cache, h))

\* a content-cache step that writes the entries it evicts back to the store
NodeCacheStep_write_back(cache2, touched) ==
    /\ GLOBAL_NODE_CACHE' = cache2
    /\ node_used' = Restrict(TouchAll(node_used, touched), Keys(cache2))
    /\ node_store' =
          [h \in DOMAIN node_store \cup (Keys(GLOBAL_NODE_CACHE) \ Keys(cache2)) |->
              IF h \in Keys(GLOBAL_NODE_CACHE) \ Keys(cache2)
              THEN Peek(GLOBAL_NODE_CACHE, h) ELSE node_store[h]]
    /\ UNCHANGED <<GLOBAL_NODE_INDEX_CACHE, index_used, saved>>

NodeCacheStep(cache2, touched) ==
    /\ GLOBAL_NODE_CACHE' = cache2
    /\ node_used' = Restrict(TouchAll(node_used, touched), Keys(cache2))
    /\ UNCHANGED <<GLOBAL_NODE_INDEX_CACHE, node_store, index_used, saved>>

get_node(hash) ==
    /\ ret.op = "none" /\ Alone
    /\ LET hit == Contains(GLOBAL_NODE_CACHE, hash) IN
       /\ ret' = [op |-> "get_node", arg |-> hash, status |-> "ok", hit |-> hit,
                  value |-> IF hit THEN Peek(GLOBAL_NODE_CACHE, hash)
                            ELSE new_empty]
       /\ NodeCacheStep(LruGet(GLOBAL_NODE_CACHE, hash),
                        IF hit THEN <<hash>> ELSE <<>>)

\* get_nodes that pushes a placeholder for a miss, as get_node returns one
RECURSIVE GetNodesLoop_placeholder(_, _, _)
GetNodesLoop_placeholder(cache, hashes, node_vec) ==
    IF hashes = <<>>
    THEN [cache |-> cache, node_vec |-> node_vec]
    ELSE IF Contains(cache, Head(hashes))
         THEN GetNodesLoop_placeholder(LruGet(cache, Head(hashes)), Tail(hashes),
                  Append(node_vec, Peek(cache, Head(hashes))))
         ELSE GetNodesLoop_placeholder(cache, Tail(hashes),
                  Append(node_vec, new_empty))

\* the loop of get_nodes: one LruCache::get per hash, a hit is pushed
RECURSIVE GetNodesLoop(_, _, _)
GetNodesLoop(cache, hashes, node_vec) ==
    IF hashes = <<>>
    THEN [cache |-> cache, node_vec |-> node_vec]
    ELSE IF Contains(cache, Head(hashes))
         THEN GetNodesLoop(LruGet(cache, Head(hashes)), Tail(hashes),
                           Append(node_vec, Peek(cache, Head(hashes))))
         ELSE GetNodesLoop(cache, Tail(hashes), node_vec)

get_nodes(hashes) ==
    /\ ret.op = "none" /\ Alone
    /\ LET r == GetNodesLoop(GLOBAL_NODE_CACHE, hashes, <<>>) IN
       /\ ret' = [op |-> "get_nodes", arg |-> hashes, status |-> "ok",
                  hits |-> HitKeys(GLOBAL_NODE_CACHE, hashes),
                  value |-> r.node_vec]
       /\ NodeCacheStep(r.cache, HitKeys(GLOBAL_NODE_CACHE, hashes))

\* a put keyed by the hash of a fresh Empty node instead of the node's own
PutNode_wrong_key(cache, node) == LruPut(cache, NodeHash(new_empty), node)

\* GLOBAL_NODE_CACHE.lock().put(node.hash(), node.clone())
PutNode(cache, node) == LruPut(cache, NodeHash(node), node)

\* the loop of save_nodes: one put per node, in order; warned counts the
\* puts that returned Some(old) and were logged
RECURSIVE PutNodes(_, _, _)
PutNodes(cache, nodes, warned) ==
    IF nodes = <<>> THEN [cache |-> cache, warned |-> warned]
    ELSE PutNodes(PutNode(cache, Head(nodes)), Tail(nodes),
                  IF Contains(cache, NodeHash(Head(nodes)))
                  THEN warned + 1 ELSE warned)

\* a put that reports an existing key as an error
PutResult_err(warned) == IF warned > 0 THEN "err" ELSE "ok"

\* the result of a cache put: Ok(()), however many puts found their key
PutResult(warned) == "ok"

HashesOf(nodes) == [i \in 1..Len(nodes) |-> NodeHash(nodes[i])]

_save_node(node) ==
    /\ ret.op = "none" /\ Alone
    /\ LET cache2 == PutNode(GLOBAL_NODE_CACHE, node) IN
       /\ ret' = [op |-> "_save_node", arg |-> node,
                  status |-> PutResult(IF Contains(GLOBAL_NODE_CACHE, NodeHash(node))
                                       THEN 1 ELSE 0),
                  warned |-> IF Contains(GLOBAL_NODE_CACHE, NodeHash(node))
                             THEN 1 ELSE 0,
                  evicted |-> Keys(GLOBAL_NODE_CACHE) \ Keys(cache2),
                  after_hits |-> IF ret.after = "node" THEN ret.hits ELSE {}]
       /\ NodeCacheStep(cache2, <<NodeHash(node)>>)

save_nodes(nodes) ==
    /\ ret.op = "none" /\ Alone
    /\ LET r == PutNodes(GLOBAL_NODE_CACHE, nodes, 0) IN
       /\ ret' = [op |-> "save_nodes", arg |-> nodes,
                  status |-> PutResult(r.warned), warned |-> r.warned,
                  evicted |-> Keys(GLOBAL_NODE_CACHE) \ Keys(r.cache)]
       /\ NodeCacheStep(r.cache, HashesOf(nodes))

(***************************************************************************)
(* AccumulatorCache, index cache.                                          *)
(***************************************************************************)
IndexCacheStep(cache2, touched) ==
    /\ GLOBAL_NODE_INDEX_CACHE' = cache2
    /\ index_used' = Restrict(TouchAll(index_used, touched), Keys(cache2))
    /\ UNCHANGED <<GLOBAL_NODE_CACHE, node_store, node_used, saved>>

get_node_hash(accumulator_id, index) ==
    /\ ret.op = "none" /\ Alone
    /\ LET key == NodeCacheKey(accumulator_id, index)
           hit == Contains(GLOBAL_NODE_INDEX_CACHE, key) IN
       /\ ret' = [op |-> "get_node_hash", arg |-> <<accumulator_id, index>>,
                  status |-> "ok", hit |-> hit,
                  value |-> IF hit THEN Peek(GLOBAL_NODE_INDEX_CACHE, key)
                            ELSE ZeroHash]
       /\ IndexCacheStep(LruGet(GLOBAL_NODE_INDEX_CACHE, key),
                         IF hit THEN <<key>> ELSE <<>>)

\* GLOBAL_NODE_INDEX_CACHE.lock().put(NodeCacheKey::new(id, index), node_hash)
PutIndex(cache, accumulator_id, index, node_hash) ==
    LruPut(cache, NodeCacheKey(accumulator_id, index), node_hash)

save_node_index(accumulator_id, index, node_hash) ==
    /\ ret.op = "none" /\ Alone
    /\ LET key == NodeCacheKey(accumulator_id, index)
           cache2 == PutIndex(GLOBAL_NODE_INDEX_CACHE, accumulator_id, index,
                              node_hash) IN
       /\ ret' = [op |-> "save_node_index",
                  arg |-> <<accumulator_id, index, node_hash>>,
                  status |-> PutResult(IF Contains(GLOBAL_NODE_INDEX_CACHE, key)
                                       THEN 1 ELSE 0),
                  warned |-> IF Contains(GLOBAL_NODE_INDEX_CACHE, key)
                             THEN 1 ELSE 0,
                  evicted |-> Keys(GLOBAL_NODE_INDEX_CACHE) \ Keys(cache2),
                  after_hits |-> IF ret.after = "index" THEN ret.hits ELSE {}]
       /\ IndexCacheStep(cache2, <<key>>)

\* a save_node_indexes that puts only the positions that are not cached yet
RECURSIVE PutIndexes_skip_existing(_, _, _, _)
PutIndexes_skip_existing(cache, accumulator_id, nodes, warned) ==
    IF nodes = <<>> THEN [cache |-> cache, warned |-> warned]
    ELSE IF Contains(cache, NodeCacheKey(accumulator_id, NodeIndexOf(Head(nodes))))
         THEN PutIndexes_skip_existing(cache, accumulator_id, Tail(nodes),
                                       warned + 1)
         ELSE PutIndexes_skip_existing(
                  PutIndex(cache, accumulator_id, NodeIndexOf(Head(nodes)),
                           NodeHash(Head(nodes))),
                  accumulator_id, Tail(nodes), warned)

\* the loop of save_node_indexes: one put of (id, node.index()) -> node.hash()
RECURSIVE PutIndexes(_, _, _, _)
PutIndexes(cache, accumulator_id, nodes, warned) ==
    IF nodes = <<>> THEN [cache |-> cache, warned |-> warned]
    ELSE PutIndexes(PutIndex(cache, accumulator_id, NodeIndexOf(Head(nodes)),
                             NodeHash(Head(nodes))),
                    accumulator_id, Tail(nodes),
                    IF Contains(cache, NodeCacheKey(accumulator_id,
                                                    NodeIndexOf(Head(nodes))))
                    THEN warned + 1 ELSE warned)

save_node_indexes(accumulator_id, nodes) ==
    /\ ret.op = "none" /\ Alone
    /\ LET r == PutIndexes(GLOBAL_NODE_INDEX_CACHE, accumulator_id, nodes, 0) IN
       /\ ret' = [op |-> "save_node_indexes", arg |-> <<accumulator_id, nodes>>,
                  status |-> PutResult(r.warned), warned |-> r.warned,
                  evicted |-> Keys(GLOBAL_NODE_INDEX_CACHE) \ Keys(r.cache)]
       /\ IndexCacheStep(r.cache,
              [i \in 1..Len(nodes) |->
                  NodeCacheKey(accumulator_id, NodeIndexOf(nodes[i]))])

(***************************************************************************)
(* MockAccumulatorStore.                                                   *)
(***************************************************************************)
\* an insert that keeps the value an existing key already has
Insert_keep_old(store, k, v) ==
    [h \in DOMAIN store \cup {k} |-> IF h \in DOMAIN store THEN store[h] ELSE v]

\* HashMap::insert
Insert(store, k, v) ==
    [h \in DOMAIN store \cup {k} |-> IF h = k THEN v ELSE store[h]]

\* a remove that keeps the named key and drops the others
Remove_retain(store, k) == [h \in DOMAIN store \cap {k} |-> store[h]]

\* HashMap::remove: removing an absent key leaves the map as it is
Remove(store, k) == [h \in DOMAIN store \ {k} |-> store[h]]

\* history of the store: a save records the node under its hash, a delete
\* forgets what was saved under the hash
RECURSIVE Saved(_, _)
Saved(sv, nodes) ==
    IF nodes = <<>> THEN sv
    ELSE Saved([sv EXCEPT ![NodeHash(Head(nodes))] = Touch(@, Head(nodes))],
               Tail(nodes))

Deleted(sv, node_hash_vec) ==
    [h \in DOMAIN sv |-> IF h \in Range(node_hash_vec) THEN <<>> ELSE sv[h]]

StoreStep(store2, saved2) ==
    /\ node_store' = store2
    /\ saved' = saved2
    /\ UNCHANGED <<GLOBAL_NODE_CACHE, GLOBAL_NODE_INDEX_CACHE, node_used,
                   index_used>>

\* AccumulatorReader::get_node: Ok(Some(node)) or bail!
Mock_get_node(hash) ==
    /\ ret.op = "none" /\ Alone
    /\ ret' = IF hash \in DOMAIN node_store
              THEN [op |-> "Mock_get_node", arg |-> hash, status |-> "ok",
                    value |-> node_store[hash]]
              ELSE [op |-> "Mock_get_node", arg |-> hash, status |-> "err"]
    /\ StoreStep(node_store, saved)

\* AccumulatorReader::multiple_get: unimplemented!()
multiple_get(hash_vec) ==
    /\ ret.op = "none" /\ Alone
    /\ ret' = [op |-> "multiple_get", arg |-> hash_vec, status |-> "panic"]
    /\ StoreStep(node_store, saved)

save_node(node) ==
    /\ ret.op = "none" /\ Alone
    /\ ret' = [op |-> "save_node", arg |-> node, status |-> "ok",
               noop |-> Insert(node_store, NodeHash(node), node) = node_store]
    /\ StoreStep(Insert(node_store, NodeHash(node), node),
                 Saved(saved, <<node>>))

\* a save_nodes that replaces the map by the batch
InsertAll_replace(store, nodes) ==
    IF nodes = <<>> THEN store
    ELSE [h \in {NodeHash(nodes[i]) : i \in 1..Len(nodes)} |->
            nodes[CHOOSE i \in 1..Len(nodes) :
                     /\ NodeHash(nodes[i]) = h
                     /\ \A j \in 1..Len(nodes) : NodeHash(nodes[j]) = h => j <= i]]

RECURSIVE InsertAll(_, _)
InsertAll(store, nodes) ==
    IF nodes = <<>> THEN store
    ELSE InsertAll(Insert(store, NodeHash(Head(nodes)), Head(nodes)), Tail(nodes))

Mock_save_nodes(nodes) ==
    /\ ret.op = "none" /\ Alone
    /\ ret' = [op |-> "Mock_save_nodes", arg |-> nodes, status |-> "ok",
               noop |-> InsertAll(node_store, nodes) = node_store]
    /\ StoreStep(InsertAll(node_store, nodes), Saved(saved, nodes))

RECURSIVE RemoveAll(_, _)
RemoveAll(store, node_hash_vec) ==
    IF node_hash_vec = <<>> THEN store
    ELSE RemoveAll(Remove(store, Head(node_hash_vec)), Tail(node_hash_vec))

\* the result of delete_nodes: Ok(()), whether or not the hashes were stored
DeleteResult(store, node_hash_vec) == "ok"

delete_nodes(node_hash_vec) ==
    /\ ret.op = "none" /\ Alone
    /\ ret' = [op |-> "delete_nodes", arg |-> node_hash_vec,
               status |-> DeleteResult(node_store, node_hash_vec),
               removed |-> DOMAIN node_store
                             \ DOMAIN RemoveAll(node_store, node_hash_vec)]
    /\ StoreStep(RemoveAll(node_store, node_hash_vec),
                 Deleted(saved, node_hash_vec))

(***************************************************************************)
(* Concurrent callers. A thread inside a call takes the Mutex of the       *)
(* structure the call works on, runs the call's loop one item at a time    *)
(* and drops the guard.                                                    *)
(***************************************************************************)
\* GLOBAL_NODE_CACHE.lock(), GLOBAL_NODE_INDEX_CACHE.lock() or
\* self.node_store.lock(): the one Mutex a call takes
LockOf(op) ==
    IF op \in {"get_node", "get_nodes", "_save_node", "save_nodes"} THEN "node"
    ELSE IF op \in {"get_node_hash", "save_node_index", "save_node_indexes"}
         THEN "index"
         ELSE "store"

\* the number of items the call's loop runs over; a call without a loop has one
Items(c) ==
    IF c.op \in {"get_nodes", "delete_nodes"} THEN Len(c.hashes)
    ELSE IF c.op \in {"save_nodes", "save_node_indexes", "Mock_save_nodes"}
         THEN Len(c.nodes)
         ELSE 1

\* every batched call that drops the guard after each item
PerItemLock_batches(op) ==
    op \in {"get_nodes", "save_nodes", "save_node_indexes", "Mock_save_nodes",
            "delete_nodes"}

\* the guard is a temporary of the loop body: delete_nodes locks node_store
\* anew for each hash; every other call binds the guard before its loop
PerItemLock(op) == op = "delete_nodes"

\* the guard that is never dropped
Unlock_leak(lk, l) == lk

\* the guard goes out of scope
Unlock(lk, l) == [lk EXCEPT ![l] = 0]

\* thread t enters the call c
Call(t, c) ==
    /\ ret.op = "none"
    /\ pc[t].st = "idle"
    /\ pc' = [pc EXCEPT ![t] =
                 [st |-> IF PerItemLock(c.op) /\ Items(c) = 0 THEN "done"
                         ELSE "call",
                  call |-> c, left |-> Items(c), out |-> NoResult]]
    /\ UNCHANGED <<GLOBAL_NODE_CACHE, GLOBAL_NODE_INDEX_CACHE, node_store, ret,
                   node_used, index_used, saved, lock, order>>

\* Mutex::lock returns the guard to thread t
Acquire(t) ==
    /\ pc[t].st = "call"
    /\ lock[LockOf(pc[t].call.op)] = 0
    /\ lock' = [lock EXCEPT ![LockOf(pc[t].call.op)] = t]
    /\ order' = Append(order, t)
    /\ pc' = [pc EXCEPT ![t].st = IF pc[t].left = 0 THEN "unlock" ELSE "held"]
    /\ UNCHANGED <<GLOBAL_NODE_CACHE, GLOBAL_NODE_INDEX_CACHE, node_store, ret,
                   node_used, index_used, saved>>

\* thread t, holding the guard, runs the body of its call for the next item
Apply(t) ==
    /\ pc[t].st = "held"
    /\ LET c == pc[t].call
           op == c.op
           i == Items(c) - pc[t].left + 1
           st2 == IF pc[t].left = 1 \/ PerItemLock(op) THEN "unlock" ELSE "held"
           Step(out2) == pc' = [pc EXCEPT ![t].st = st2, ![t].left = @ - 1,
                                          ![t].out = out2]
       IN  CASE op \in {"get_node", "get_nodes"} ->
                  LET hash == c.hashes[i]
                      hit == Contains(GLOBAL_NODE_CACHE, hash) IN
                  /\ Step([pc[t].out EXCEPT !.got =
                             IF hit THEN Append(@, Peek(GLOBAL_NODE_CACHE, hash))
                             ELSE IF op = "get_node" THEN Append(@, new_empty)
                                  ELSE @])
                  /\ NodeCacheStep(LruGet(GLOBAL_NODE_CACHE, hash),
                                   IF hit THEN <<hash>> ELSE <<>>)
             [] op \in {"_save_node", "save_nodes"} ->
                  /\ Step(pc[t].out)
                  /\ NodeCacheStep(PutNode(GLOBAL_NODE_CACHE, c.nodes[i]),
                                   <<NodeHash(c.nodes[i])>>)
             [] op = "get_node_hash" ->
                  LET key == NodeCacheKey(c.id, c.index[1])
                      hit == Contains(GLOBAL_NODE_INDEX_CACHE, key) IN
                  /\ Step([pc[t].out EXCEPT !.hash =
                             IF hit THEN Peek(GLOBAL_NODE_INDEX_CACHE, key)
                             ELSE ZeroHash])
                  /\ IndexCacheStep(LruGet(GLOBAL_NODE_INDEX_CACHE, key),
                                    IF hit THEN <<key>> ELSE <<>>)
             [] op = "save_node_index" ->
                  /\ Step(pc[t].out)
                  /\ IndexCacheStep(PutIndex(GLOBAL_NODE_INDEX_CACHE, c.id,
                                             c.index[1], c.hashes[1]),
                                    <<NodeCacheKey(c.id, c.index[1])>>)
             [] op = "save_node_indexes" ->
                  /\ Step(pc[t].out)
                  /\ IndexCacheStep(PutIndex(GLOBAL_NODE_INDEX_CACHE, c.id,
                                             NodeIndexOf(c.nodes[i]),
                                             NodeHash(c.nodes[i])),
                                    <<NodeCacheKey(c.id, NodeIndexOf(c.nodes[i]))>>)
             [] op = "Mock_get_node" ->
                  /\ Step(IF c.hashes[1] \in DOMAIN node_store
                          THEN [pc[t].out EXCEPT !.got = <<node_store[c.hashes[1]]>>]
                          ELSE [pc[t].out EXCEPT !.err = TRUE])
                  /\ StoreStep(node_store, saved)
             [] op \in {"save_node", "Mock_save_nodes"} ->
                  /\ Step(pc[t].out)
                  /\ StoreStep(Insert(node_store, NodeHash(c.nodes[i]), c.nodes[i]),
                               Saved(saved, <<c.nodes[i]>>))
             [] op = "delete_nodes" ->
                  /\ Step(pc[t].out)
                  /\ StoreStep(Remove(node_store, c.hashes[i]),
                               Deleted(saved, <<c.hashes[i]>>))
    /\ UNCHANGED <<ret, lock, order>>

\* thread t drops the guard: at the end of the call, or of the statement
\* that took it
Release(t) ==
    /\ pc[t].st = "unlock"
    /\ lock' = Unlock(lock, LockOf(pc[t].call.op))
    /\ pc' = [pc EXCEPT ![t].st = IF pc[t].left = 0 THEN "done" ELSE "call"]
    /\ UNCHANGED <<GLOBAL_NODE_CACHE, GLOBAL_NODE_INDEX_CACHE, node_store, ret,
                   node_used, index_used, saved, order>>

\* no thread is inside a call
Quiescent == \A t \in Threads : pc[t].st \in {"idle", "done"}

\* the threads whose call has returned
Ran == {t \in Threads : pc[t].st = "done"}

\* the shared structures
Shared ==
    [node |-> GLOBAL_NODE_CACHE, index |-> GLOBAL_NODE_INDEX_CACHE,
     store |-> node_store]

\* the call c run from s with no other call in progress: the structures it
\* leaves and what it returns
Whole(s, c) ==
    CASE c.op = "get_node" ->
           [s |-> [s EXCEPT !.node = LruGet(s.node, c.hashes[1])],
            out |-> [NoResult EXCEPT !.got =
                        <<IF Contains(s.node, c.hashes[1])
                          THEN Peek(s.node, c.hashes[1]) ELSE new_empty>>]]
      [] c.op = "get_nodes" ->
           [s |-> [s EXCEPT !.node = GetNodesLoop(s.node, c.hashes, <<>>).cache],
            out |-> [NoResult EXCEPT !.got =
                        GetNodesLoop(s.node, c.hashes, <<>>).node_vec]]
      [] c.op = "_save_node" ->
           [s |-> [s EXCEPT !.node = PutNode(s.node, c.nodes[1])],
            out |-> NoResult]
      [] c.op = "save_nodes" ->
           [s |-> [s EXCEPT !.node = PutNodes(s.node, c.nodes, 0).cache],
            out |-> NoResult]
      [] c.op = "get_node_hash" ->
           LET key == NodeCacheKey(c.id, c.index[1]) IN
           [s |-> [s EXCEPT !.index = LruGet(s.index, key)],
            out |-> [NoResult EXCEPT !.hash =
                        IF Contains(s.index, key) THEN Peek(s.index, key)
                        ELSE ZeroHash]]
      [] c.op = "save_node_index" ->
           [s |-> [s EXCEPT !.index =
                      PutIndex(s.index, c.id, c.index[1], c.hashes[1])],
            out |-> NoResult]
      [] c.op = "save_node_indexes" ->
           [s |-> [s EXCEPT !.index = PutIndexes(s.index, c.id, c.nodes, 0).cache],
            out |-> NoResult]
      [] c.op = "Mock_get_node" ->
           [s |-> s,
            out |-> IF c.hashes[1] \in DOMAIN s.store
                    THEN [NoResult EXCEPT !.got = <<s.store[c.hashes[1]]>>]
                    ELSE [NoResult EXCEPT !.err = TRUE]]
      [] c.op = "save_node" ->
           [s |-> [s EXCEPT !.store =
                      Insert(s.store, NodeHash(c.nodes[1]), c.nodes[1])],
            out |-> NoResult]
      [] c.op = "Mock_save_nodes" ->
           [s |-> [s EXCEPT !.store = InsertAll(s.store, c.nodes)],
            out |-> NoResult]
      [] c.op = "delete_nodes" ->
           [s |-> [s EXCEPT !.store = RemoveAll(s.store, c.hashes)],
            out |-> NoResult]

\* the calls of the threads ts, run one after the other from s
RECURSIVE Serial(_, _, _)
Serial(s, outs, ts) ==
    IF ts = <<>> THEN [s |-> s, out |-> outs]
    ELSE LET r == Whole(s, pc[Head(ts)].call) IN
         Serial(r.s, [outs EXCEPT ![Head(ts)] = r.out], Tail(ts))

\* the orders in which the calls of the threads in S can be run
Orders(S) ==
    {f \in [1..Cardinality(S) -> S] :
        \A i, j \in 1..Cardinality(S) : f[i] = f[j] => i = j}

\* what the serial orders of the returned calls leave, from the empty
\* structures of Init
SerialOutcomes ==
    {Serial([node |-> <<>>, index |-> <<>>, store |-> EmptyMap],
            [t \in Threads |-> NoResult], ts) : ts \in Orders(Ran)}

(***************************************************************************)
(* Specifications.                                                         *)
(***************************************************************************)
\* hashes recorded in the index cache
IndexHashes == {ZeroHash, LeafHash(1)}

\* nodes handed to save_node_indexes
Indexed == {n \in Leaves : n.leaf_hash \in {1, MaxLeaf}}

NodeCacheOp ==
    \/ \E hash \in HashValue : get_node(hash)
    \/ \E hashes \in BatchOf(HashValue) : get_nodes(hashes)
    \/ \E node \in AccumulatorNode : _save_node(node)
    \/ \E nodes \in BatchOf(AccumulatorNode) : save_nodes(nodes)

IndexCacheOp ==
    \/ \E id \in AccumulatorIds, index \in NodeIndexes : get_node_hash(id, index)
    \/ \E id \in AccumulatorIds, index \in NodeIndexes, h \in IndexHashes :
          save_node_index(id, index, h)
    \/ \E id \in AccumulatorIds, nodes \in BatchOf(Indexed) :
          save_node_indexes(id, nodes)

StoreOp ==
    \/ \E hash \in HashValue : Mock_get_node(hash)
    \/ \E hash_vec \in BatchOf(HashValue) : multiple_get(hash_vec)
    \/ \E node \in AccumulatorNode : save_node(node)
    \/ \E nodes \in BatchOf(AccumulatorNode) : Mock_save_nodes(nodes)
    \/ \E node_hash_vec \in BatchOf(HashValue) : delete_nodes(node_hash_vec)

\* the content cache and the backing store
Next == NodeCacheOp \/ StoreOp \/ Return

Spec == Init /\ [][Next]_vars

\* the content cache
NextContent == NodeCacheOp \/ Return

SpecContent == Init /\ [][NextContent]_vars

\* the backing store
NextStore == StoreOp \/ Return

SpecStore == Init /\ [][NextStore]_vars

\* the index cache
NextIndex == IndexCacheOp \/ Return

SpecIndex == Init /\ [][NextIndex]_vars

\* both caches
NextCache == NodeCacheOp \/ IndexCacheOp \/ Return

SpecCache == Init /\ [][NextCache]_vars

\* write-through callers: a node is put in the content cache only while the
\* backing store holds it
WriteThrough(node) ==
    /\ NodeHash(node) \in DOMAIN node_store
    /\ node_store[NodeHash(node)] = node

NextWT ==
    \/ \E hash \in HashValue : get_node(hash)
    \/ \E hashes \in BatchOf(HashValue) : get_nodes(hashes)
    \/ \E node \in AccumulatorNode : WriteThrough(node) /\ _save_node(node)
    \/ \E nodes \in BatchOf(AccumulatorNode) :
          (\A i \in 1..Len(nodes) : WriteThrough(nodes[i])) /\ save_nodes(nodes)
    \/ StoreOp
    \/ Return

SpecWT == Init /\ [][NextWT]_vars

\* nodes, hashes and batches the concurrent callers pass
ThreadNodes == {new_empty} \cup {n \in Indexed : n.index = 0 \/ n.leaf_hash = 1}

ThreadHashes == {NodeHash(n) : n \in ThreadNodes}

ThreadBatch(S) == {<<>>} \cup {<<a, b>> : a, b \in S}

CacheCall(t) ==
    \/ \E hash \in ThreadHashes :
          Call(t, Operands("get_node", 0, <<>>, <<hash>>, <<>>))
    \/ \E hashes \in ThreadBatch(ThreadHashes) :
          Call(t, Operands("get_nodes", 0, <<>>, hashes, <<>>))
    \/ \E node \in ThreadNodes :
          Call(t, Operands("_save_node", 0, <<>>, <<>>, <<node>>))
    \/ \E nodes \in ThreadBatch(ThreadNodes) :
          Call(t, Operands("save_nodes", 0, <<>>, <<>>, nodes))
    \/ \E id \in AccumulatorIds, index \in NodeIndexes :
          Call(t, Operands("get_node_hash", id, <<index>>, <<>>, <<>>))
    \/ \E id \in AccumulatorIds, index \in NodeIndexes, h \in IndexHashes :
          Call(t, Operands("save_node_index", id, <<index>>, <<h>>, <<>>))
    \/ \E id \in AccumulatorIds, nodes \in ThreadBatch(ThreadNodes \ {new_empty}) :
          Call(t, Operands("save_node_indexes", id, <<>>, <<>>, nodes))

StoreCall(t) ==
    \/ \E hash \in ThreadHashes :
          Call(t, Operands("Mock_get_node", 0, <<>>, <<hash>>, <<>>))
    \/ \E node \in ThreadNodes :
          Call(t, Operands("save_node", 0, <<>>, <<>>, <<node>>))
    \/ \E nodes \in ThreadBatch(ThreadNodes) :
          Call(t, Operands("Mock_save_nodes", 0, <<>>, <<>>, nodes))
    \/ \E node_hash_vec \in ThreadBatch(ThreadHashes) :
          Call(t, Operands("delete_nodes", 0, <<>>, node_hash_vec, <<>>))

\* calls of each cache function, the batched ones with no item or two
FairCall(t) ==
    \E c \in {Operands("get_node", 0, <<>>, <<PlaceholderHash>>, <<>>),
              Operands("get_node", 0, <<>>, <<LeafHash(1)>>, <<>>),
              Operands("_save_node", 0, <<>>, <<>>,
                       <<[tag |-> "Leaf", index |-> 1, leaf_hash |-> 1]>>),
              Operands("save_nodes", 0, <<>>, <<>>, <<>>),
              Operands("save_node_index", 1, <<0>>, <<ZeroHash>>, <<>>),
              Operands("get_nodes", 0, <<>>, <<PlaceholderHash, LeafHash(1)>>, <<>>),
              Operands("_save_node", 0, <<>>, <<>>, <<new_empty>>),
              Operands("save_nodes", 0, <<>>, <<>>,
                       <<[tag |-> "Leaf", index |-> 0, leaf_hash |-> 1], new_empty>>),
              Operands("get_node_hash", 1, <<0>>, <<>>, <<>>),
              Operands("save_node_index", 1, <<0>>, <<LeafHash(1)>>, <<>>),
              Operands("save_node_indexes", 1, <<>>, <<>>,
                       <<[tag |-> "Leaf", index |-> 0, leaf_hash |-> 1],
                         [tag |-> "Leaf", index |-> 1, leaf_hash |-> 1]>>)} :
       Call(t, c)

\* threads on the two caches, each making one call
NextFair ==
    \/ \E t \in Threads : FairCall(t)
    \/ \E t \in Threads : Acquire(t)
    \/ \E t \in Threads : Apply(t)
    \/ \E t \in Threads : Release(t)

\* the Mutex wakes a waiting thread, and a running thread runs on
FairThreads ==
    /\ Init /\ [][NextFair]_vars
    /\ \A t \in Threads :
          WF_vars(Acquire(t)) /\ WF_vars(Apply(t)) /\ WF_vars(Release(t))

\* threads on the two caches, each making one call; once all have returned,
\* one more lookup
NextThreads ==
    \/ \E t \in Threads : CacheCall(t)
    \/ \E t \in Threads : Acquire(t)
    \/ \E t \in Threads : Apply(t)
    \/ \E t \in Threads : Release(t)
    \/ \E hash \in ThreadHashes : Quiescent /\ get_node(hash)
    \/ \E id \in AccumulatorIds, index \in NodeIndexes :
          Quiescent /\ get_node_hash(id, index)

SpecThreads == Init /\ [][NextThreads]_vars

\* threads on one backing store, each making one call
NextStoreThreads ==
    \/ \E t \in Threads : StoreCall(t)
    \/ \E t \in Threads : Acquire(t)
    \/ \E t \in Threads : Apply(t)
    \/ \E t \in Threads : Release(t)

SpecStoreThreads == Init /\ [][NextStoreThreads]_vars

(***************************************************************************)
(* Properties.                                                             *)
(***************************************************************************)

\* C1: cache coherence of the content cache. Every entry (k, v) held by
\* GLOBAL_NODE_CACHE has k = hash(v), and a lookup that hits (get_node,
\* get_nodes) yields only nodes whose content hash is the requested hash.
CacheCoherence ==
    /\ \A i \in 1..Len(GLOBAL_NODE_CACHE) :
          GLOBAL_NODE_CACHE[i].key = NodeHash(GLOBAL_NODE_CACHE[i].value)
    /\ (ret.op = "get_node" /\ ret.hit) => NodeHash(ret.value) = ret.arg
    /\ ret.op = "get_nodes" =>
          /\ Len(ret.value) = Len(ret.hits)
          /\ \A i \in 1..Len(ret.value) : NodeHash(ret.value[i]) = ret.hits[i]

\* a lookup of a Leaf's hash hits in a full cache and yields that Leaf
CacheCoherenceWitness ==
    /\ ret.op = "get_node" /\ ret.hit /\ ret.value.tag = "Leaf"
    /\ ret.arg = LeafHash(ret.value.leaf_hash)
    /\ Len(GLOBAL_NODE_CACHE) = MAC_CACHE_SIZE

\* C2: index disambiguation. save_node_index(a, i, h) makes (a, i) resolve to
\* h and changes the hash resolved under no other (accumulator id, index)
\* pair: whatever another pair resolves to afterwards it resolved to before.
\* get_node_hash on a cached pair returns the hash stored under that pair and
\* changes no stored hash.
IndexDisambiguation ==
    [][ /\ ret'.op = "save_node_index" =>
            LET a == ret'.arg[1]
                i == ret'.arg[2]
                h == ret'.arg[3]
            IN  /\ \E n \in 1..Len(GLOBAL_NODE_INDEX_CACHE') :
                      /\ GLOBAL_NODE_INDEX_CACHE'[n].key.id = a
                      /\ GLOBAL_NODE_INDEX_CACHE'[n].key.index = i
                      /\ GLOBAL_NODE_INDEX_CACHE'[n].value = h
                /\ \A a2 \in AccumulatorIds, i2 \in NodeIndexes :
                      (<<a2, i2>> # <<a, i>>
                         /\ Contains(GLOBAL_NODE_INDEX_CACHE', NodeCacheKey(a2, i2)))
                      => /\ Contains(GLOBAL_NODE_INDEX_CACHE, NodeCacheKey(a2, i2))
                         /\ Peek(GLOBAL_NODE_INDEX_CACHE', NodeCacheKey(a2, i2))
                              = Peek(GLOBAL_NODE_INDEX_CACHE, NodeCacheKey(a2, i2))
        /\ (ret'.op = "get_node_hash" /\ ret'.hit) =>
              /\ \E n \in 1..Len(GLOBAL_NODE_INDEX_CACHE) :
                    /\ GLOBAL_NODE_INDEX_CACHE[n].key.id = ret'.arg[1]
                    /\ GLOBAL_NODE_INDEX_CACHE[n].key.index = ret'.arg[2]
                    /\ GLOBAL_NODE_INDEX_CACHE[n].value = ret'.value
              /\ Range(GLOBAL_NODE_INDEX_CACHE') = Range(GLOBAL_NODE_INDEX_CACHE)
      ]_vars

\* two accumulators hold different hashes at one index, and the lookup under
\* the first returns its own
IndexDisambiguationWitness ==
    /\ ret.op = "get_node_hash" /\ ret.hit
    /\ \E i \in NodeIndexes, a1, a2 \in AccumulatorIds :
          /\ a1 # a2
          /\ ret.arg = <<a1, i>>
          /\ Contains(GLOBAL_NODE_INDEX_CACHE, NodeCacheKey(a1, i))
          /\ Contains(GLOBAL_NODE_INDEX_CACHE, NodeCacheKey(a2, i))
          /\ Peek(GLOBAL_NODE_INDEX_CACHE, NodeCacheKey(a1, i)) = ret.value
          /\ Peek(GLOBAL_NODE_INDEX_CACHE, NodeCacheKey(a2, i)) # ret.value

\* C3: LRU eviction. When the content cache holds MAC_CACHE_SIZE distinct
\* keys and _save_node inserts a further key, exactly the least recently used
\* key (the head of the use history) leaves the cache, every other entry stays
\* as it was, and the new key is cached; a lookup of a key that is not cached
\* is a miss and changes nothing.
LruEviction ==
    [][ /\ ( /\ ret'.op = "_save_node"
             /\ Cardinality(Keys(GLOBAL_NODE_CACHE)) = MAC_CACHE_SIZE
             /\ NodeHash(ret'.arg) \notin Keys(GLOBAL_NODE_CACHE) ) =>
            /\ Range(node_used) = Keys(GLOBAL_NODE_CACHE)
            /\ Keys(GLOBAL_NODE_CACHE') =
                  (Keys(GLOBAL_NODE_CACHE) \ {Head(node_used)})
                      \cup {NodeHash(ret'.arg)}
            /\ Cardinality(Keys(GLOBAL_NODE_CACHE')) = MAC_CACHE_SIZE
            /\ \A n \in 1..Len(GLOBAL_NODE_CACHE) :
                  GLOBAL_NODE_CACHE[n].key # Head(node_used)
                  => GLOBAL_NODE_CACHE[n] \in Range(GLOBAL_NODE_CACHE')
        /\ (ret'.op = "get_node" /\ ret'.arg \notin Keys(GLOBAL_NODE_CACHE)) =>
            /\ ~ret'.hit
            /\ GLOBAL_NODE_CACHE' = GLOBAL_NODE_CACHE
      ]_vars

\* a put of a new key into a full content cache has just evicted one key
LruEvictionWitness ==
    /\ ret.op = "_save_node" /\ ret.warned = 0
    /\ Cardinality(ret.evicted) = 1
    /\ Len(GLOBAL_NODE_CACHE) = MAC_CACHE_SIZE
    /\ NodeHash(ret.arg) \in Keys(GLOBAL_NODE_CACHE)

\* C4: authoritative reads. get_node of a hash the store does not hold fails;
\* multiple_get over hashes one of which is absent fails; multiple_get over
\* hashes that are all present succeeds with one node per requested hash.
AuthoritativeReads ==
    /\ (ret.op = "Mock_get_node" /\ ret.arg \notin DOMAIN node_store)
          => ret.status = "err"
    /\ (ret.op = "multiple_get" /\ \E i \in 1..Len(ret.arg) :
                                      ret.arg[i] \notin DOMAIN node_store)
          => ret.status # "ok"
    /\ (ret.op = "multiple_get" /\ ret.arg # <<>>
                               /\ \A i \in 1..Len(ret.arg) :
                                      ret.arg[i] \in DOMAIN node_store)
          => /\ ret.status = "ok"
             /\ Len(ret.value) = Len(ret.arg)
             /\ \A i \in 1..Len(ret.arg) : NodeHash(ret.value[i]) = ret.arg[i]

\* C5: under write-through callers, every key of the content cache is held by
\* the backing store, and a hit of get_node is for a hash the store holds.
CacheWithinStore ==
    /\ Keys(GLOBAL_NODE_CACHE) \subseteq DOMAIN node_store
    /\ (ret.op = "get_node" /\ ret.hit) => ret.arg \in DOMAIN node_store

\* C6: a miss of get_node returns something no hit can return: not an
\* AccumulatorNode (any node, Empty included, can be cached and hit).
MissIsDistinct ==
    (ret.op = "get_node" /\ ~ret.hit) => ret.value \notin AccumulatorNode

\* C7: a miss of get_node_hash returns something no hit can return: not a
\* HashValue (any hash, the zero hash included, can be stored and hit).
IndexMissIsDistinct ==
    (ret.op = "get_node_hash" /\ ~ret.hit) => ret.value \notin HashValue

\* C8: get_nodes returns, in request order, the node cached under each
\* requested hash that is cached when the call is made, and nothing else: its
\* length is the number of requested hashes that hit.
GetNodesExact ==
    [][ ret'.op = "get_nodes" =>
          LET hit == {i \in 1..Len(ret'.arg) :
                         \E n \in 1..Len(GLOBAL_NODE_CACHE) :
                            GLOBAL_NODE_CACHE[n].key = ret'.arg[i]}
              \* the number of hits among the first i requests
              rank(i) == Cardinality({j \in hit : j <= i})
          IN  /\ Len(ret'.value) = Cardinality(hit)
              /\ \A i \in hit :
                    \E n \in 1..Len(GLOBAL_NODE_CACHE) :
                       /\ GLOBAL_NODE_CACHE[n].key = ret'.arg[i]
                       /\ GLOBAL_NODE_CACHE[n].value = ret'.value[rank(i)]
      ]_vars

\* a batch lookup of two hashes, the first a miss and the second a hit
GetNodesExactWitness ==
    /\ ret.op = "get_nodes" /\ Len(ret.arg) = 2 /\ Len(ret.value) = 1
    /\ ret.arg[1] \notin Keys(GLOBAL_NODE_CACHE)
    /\ ret.arg[2] \in Keys(GLOBAL_NODE_CACHE)
    /\ NodeHash(ret.value[1]) = ret.arg[2]

\* C9: every cache operation returns success: the four puts return Ok(()),
\* also when a key existed or an entry was evicted, and the three lookups
\* return a value.
CacheOpsNeverFail ==
    /\ ret.op \in {"_save_node", "save_nodes", "save_node_index",
                   "save_node_indexes"} => ret.status = "ok"
    /\ ret.op = "get_node" => ret.status = "ok" /\ ret.value \in AccumulatorNode
    /\ ret.op = "get_nodes" =>
          ret.status = "ok" /\ Range(ret.value) \subseteq AccumulatorNode
    /\ ret.op = "get_node_hash" => ret.status = "ok" /\ ret.value \in HashValue

\* a batch put that overwrote an existing key and evicted another entry
CacheOpsNeverFailWitness ==
    /\ ret.op = "save_node_indexes" /\ ret.warned > 0 /\ ret.evicted # {}
    /\ Len(GLOBAL_NODE_INDEX_CACHE) = MAC_CACHE_SIZE
    /\ Len(GLOBAL_NODE_CACHE) = MAC_CACHE_SIZE

\* C10: delete_nodes returns success whether or not the named hashes are
\* stored, removes exactly the named hashes that were stored, and leaves the
\* mapping of every other hash as it was.
DeleteFrame ==
    [][ ret'.op = "delete_nodes" =>
          /\ ret'.status = "ok"
          /\ DOMAIN node_store' = DOMAIN node_store \ Range(ret'.arg)
          /\ \A h \in DOMAIN node_store' : node_store'[h] = node_store[h]
      ]_vars

\* a delete of a hash that is not stored, while other hashes are stored
DeleteFrameWitness ==
    /\ ret.op = "delete_nodes" /\ ret.arg # <<>> /\ ret.removed = {}
    /\ ret.status = "ok"
    /\ DOMAIN node_store # {}

SaveIdempotent ==
    [][ /\ ret'.op = "save_node" =>
            LET h == NodeHash(ret'.arg) IN
            /\ h \in DOMAIN node_store' /\ node_store'[h] = ret'.arg
            /\ (h \in DOMAIN node_store /\ node_store[h] = ret'.arg)
                  => node_store' = node_store
        /\ ret'.op = "Mock_save_nodes" =>
            LET ns == ret'.arg
                last(i) == \A j \in 1..Len(ns) :
                              NodeHash(ns[j]) = NodeHash(ns[i]) => j <= i
                settled(store) ==
                    \A i \in 1..Len(ns) :
                        /\ NodeHash(ns[i]) \in DOMAIN store
                        /\ last(i) => store[NodeHash(ns[i])] = ns[i]
            IN  /\ settled(node_store')
                /\ settled(node_store) => node_store' = node_store
      ]_vars

\* a batch of two nodes is saved again and the store, which also holds another
\* hash, stays as it was
SaveIdempotentWitness ==
    /\ ret.op = "Mock_save_nodes" /\ Len(ret.arg) = 2 /\ ret.noop
    /\ ret.arg[1] # ret.arg[2]
    /\ DOMAIN node_store # {NodeHash(ret.arg[i]) : i \in 1..2}

\* C13: cache operations change only their own cache. Every content-cache
\* operation leaves the backing store and the index cache as they were, and
\* every index-cache operation leaves the backing store and the content cache
\* as they were, whether or not it evicts.
CacheFrame ==
    [][ /\ ret'.op \in {"get_node", "get_nodes", "_save_node", "save_nodes"}
            => /\ node_store' = node_store
               /\ GLOBAL_NODE_INDEX_CACHE' = GLOBAL_NODE_INDEX_CACHE
        /\ ret'.op \in {"get_node_hash", "save_node_index", "save_node_indexes"}
            => /\ node_store' = node_store
               /\ GLOBAL_NODE_CACHE' = GLOBAL_NODE_CACHE
      ]_vars

\* a batch put has evicted from the content cache while the index cache is full
CacheFrameWitness ==
    /\ ret.op = "save_nodes" /\ ret.evicted # {}
    /\ Len(GLOBAL_NODE_INDEX_CACHE) = MAC_CACHE_SIZE
    /\ node_store = EmptyMap

\* the content cache that _save_node(n), called for each n of nodes in order,
\* leaves
RECURSIVE SinglePuts(_, _)
SinglePuts(cache, nodes) ==
    IF nodes = <<>> THEN cache
    ELSE SinglePuts(LruPut(cache, NodeHash(Head(nodes)), Head(nodes)), Tail(nodes))

\* the index cache that save_node_index(id, n.index(), n.hash()), called for
\* each n of nodes in order, leaves
RECURSIVE SingleIndexPuts(_, _, _)
SingleIndexPuts(cache, id, nodes) ==
    IF nodes = <<>> THEN cache
    ELSE SingleIndexPuts(
             LruPut(cache, [id |-> id, index |-> Head(nodes).index],
                    NodeHash(Head(nodes))),
             id, Tail(nodes))

\* C16: a batched put equals its single puts applied in order. save_nodes(ns)
\* leaves the content cache (entries and recency order) as the _save_node
\* calls for ns in sequence leave it; save_node_indexes(id, ns) leaves the
\* index cache as the save_node_index calls in sequence leave it; of two nodes
\* of one batch at one position, the hash of the later one is cached.
BatchEqualsSingles ==
    [][ /\ ret'.op = "save_nodes" =>
              GLOBAL_NODE_CACHE' = SinglePuts(GLOBAL_NODE_CACHE, ret'.arg)
        /\ ret'.op = "save_node_indexes" =>
              LET id == ret'.arg[1]
                  ns == ret'.arg[2]
              IN  /\ GLOBAL_NODE_INDEX_CACHE' =
                        SingleIndexPuts(GLOBAL_NODE_INDEX_CACHE, id, ns)
                  /\ \A i \in 1..Len(ns) :
                        (\A j \in 1..Len(ns) : ns[j].index = ns[i].index => j <= i)
                        => \A n \in 1..Len(GLOBAL_NODE_INDEX_CACHE') :
                              (/\ GLOBAL_NODE_INDEX_CACHE'[n].key.id = id
                               /\ GLOBAL_NODE_INDEX_CACHE'[n].key.index = ns[i].index)
                              => GLOBAL_NODE_INDEX_CACHE'[n].value = NodeHash(ns[i])
      ]_vars

\* a batch of two nodes at one position with different hashes was put over a
\* cached entry for that position, and the second node's hash is cached
BatchEqualsSinglesWitness ==
    /\ ret.op = "save_node_indexes" /\ Len(ret.arg[2]) = 2 /\ ret.warned = 2
    /\ ret.arg[2][1].index = ret.arg[2][2].index
    /\ NodeHash(ret.arg[2][1]) # NodeHash(ret.arg[2][2])
    /\ \E n \in 1..Len(GLOBAL_NODE_INDEX_CACHE) :
          /\ GLOBAL_NODE_INDEX_CACHE[n].key.id = ret.arg[1]
          /\ GLOBAL_NODE_INDEX_CACHE[n].key.index = ret.arg[2][2].index
          /\ GLOBAL_NODE_INDEX_CACHE[n].value = NodeHash(ret.arg[2][2])

\* C17: capacity bound. The content cache and the index cache each hold at
\* most MAC_CACHE_SIZE entries, with no key held twice.
CapacityBound ==
    /\ Len(GLOBAL_NODE_CACHE) <= MAC_CACHE_SIZE
    /\ Len(GLOBAL_NODE_INDEX_CACHE) <= MAC_CACHE_SIZE
    /\ Cardinality(Keys(GLOBAL_NODE_CACHE)) = Len(GLOBAL_NODE_CACHE)
    /\ Cardinality(Keys(GLOBAL_NODE_INDEX_CACHE)) = Len(GLOBAL_NODE_INDEX_CACHE)

\* both caches are full, the index cache after a batch put under the second
\* accumulator that had to evict
CapacityBoundWitness ==
    /\ ret.op = "save_node_indexes" /\ ret.evicted # {} /\ ret.arg[1] = MaxAcc
    /\ Len(GLOBAL_NODE_INDEX_CACHE) = MAC_CACHE_SIZE
    /\ Len(GLOBAL_NODE_CACHE) = MAC_CACHE_SIZE
    /\ \E n \in 1..Len(GLOBAL_NODE_INDEX_CACHE) :
          GLOBAL_NODE_INDEX_CACHE[n].key.id # MaxAcc

Puts(c) ==
    CASE c.op \in {"_save_node", "save_nodes"} ->
           [i \in 1..Len(c.nodes) |->
               [key |-> NodeHash(c.nodes[i]), value |-> c.nodes[i]]]
      [] c.op = "save_node_index" ->
           <<[key |-> [id |-> c.id, index |-> c.index[1]], value |-> c.hashes[1]]>>
      [] c.op = "save_node_indexes" ->
           [i \in 1..Len(c.nodes) |->
               [key |-> [id |-> c.id, index |-> c.nodes[i].index],
                value |-> NodeHash(c.nodes[i])]]
      [] OTHER -> <<>>

\* the returned calls on cache l that put key k
Writers(l, k) ==
    {t \in Ran : /\ LockOf(pc[t].call.op) = l
                 /\ \E i \in 1..Len(Puts(pc[t].call)) : Puts(pc[t].call)[i].key = k}

\* the value the call of thread t put last under key k
Written(t, k) ==
    LET puts == Puts(pc[t].call)
        i == CHOOSE j \in 1..Len(puts) :
                /\ puts[j].key = k
                /\ \A n \in 1..Len(puts) : puts[n].key = k => n <= j
    IN  puts[i].value

\* the writer of k that took the lock of cache l last
LastWriter(l, k) ==
    CHOOSE t \in Writers(l, k) :
        \A u \in Writers(l, k) :
            \A i, j \in 1..Len(order) : (order[i] = u /\ order[j] = t) => i <= j

\* C14: last write wins per key. Once the concurrent puts have returned, a
\* lookup that hits a key returns the value written by the put that took the
\* cache lock last among the puts to that key, in the content cache and in
\* the index cache.
LastWriteWins ==
    [][ /\ (ret'.op = "get_node" /\ ret'.hit)
           => /\ Writers("node", ret'.arg) # {}
              /\ ret'.value = Written(LastWriter("node", ret'.arg), ret'.arg)
        /\ (ret'.op = "get_node_hash" /\ ret'.hit)
           => LET key == [id |-> ret'.arg[1], index |-> ret'.arg[2]] IN
              /\ Writers("index", key) # {}
              /\ ret'.value = Written(LastWriter("index", key), key)
      ]_vars

\* two threads have put different nodes with one content hash, and the lookup
\* returned the node of the thread that locked second
LastWriteWinsWitness ==
    /\ ret.op = "get_node" /\ ret.hit
    /\ \E t, u \in Threads :
          /\ pc[t].st = "done" /\ pc[u].st = "done"
          /\ pc[t].call.op = "_save_node" /\ pc[u].call.op = "_save_node"
          /\ pc[t].call.nodes # pc[u].call.nodes
          /\ NodeHash(pc[t].call.nodes[1]) = ret.arg
          /\ NodeHash(pc[u].call.nodes[1]) = ret.arg
          /\ order = <<u, t>>
          /\ ret.value = pc[t].call.nodes[1]

\* C15: every cache operation is atomic. A thread applies the items of its
\* call only while it holds the lock of the call's cache and holds it from
\* the first item to the last; once the calls have returned, the caches and
\* every call's result are those of the whole calls run in some serial order.
Atomic ==
    /\ \A t \in Threads :
          /\ pc[t].st \in {"held", "unlock"} => lock[LockOf(pc[t].call.op)] = t
          /\ pc[t].st = "call" => pc[t].left = Items(pc[t].call)
          /\ pc[t].st = "unlock" => pc[t].left = 0
    /\ \A l \in Locks :
          lock[l] # 0 => /\ pc[lock[l]].st \in {"held", "unlock"}
                         /\ LockOf(pc[lock[l]].call.op) = l
    /\ (Quiescent /\ ret.op = "none")
       => \E r \in SerialOutcomes :
             /\ r.s = Shared
             /\ \A t \in Ran : r.out[t] = pc[t].out

\* a thread holds the content-cache lock half way through a batch put of two
\* nodes while another thread waits to look the two hashes up
AtomicWitness ==
    \E t, u \in Threads :
       /\ pc[t].st = "held" /\ pc[t].call.op = "save_nodes"
       /\ Len(pc[t].call.nodes) = 2 /\ pc[t].left = 1
       /\ NodeHash(pc[t].call.nodes[1]) # NodeHash(pc[t].call.nodes[2])
       /\ pc[u].st = "call" /\ pc[u].call.op = "get_nodes"
       /\ pc[u].call.hashes = HashesOf(pc[t].call.nodes)
       /\ Contains(GLOBAL_NODE_CACHE, pc[u].call.hashes[1])
       /\ ~Contains(GLOBAL_NODE_CACHE, pc[u].call.hashes[2])

\* C18: cache operations cannot deadlock and always return. A thread holds
\* at most the one lock of its call and takes it once, a thread waits only
\* for a lock that a running thread holds, and every call that was started
\* returns with its lock released.
AlwaysReturns ==
    /\ [](\A t \in Threads :
            /\ \A l \in Locks : lock[l] = t => l = LockOf(pc[t].call.op)
            /\ \A i, j \in 1..Len(order) : (order[i] = t /\ order[j] = t) => i = j
            /\ pc[t].st = "call" =>
                  \/ lock[LockOf(pc[t].call.op)] = 0
                  \/ pc[lock[LockOf(pc[t].call.op)]].st \in {"held", "unlock"})
    /\ \A t \in Threads :
          (pc[t].st # "idle") ~> (pc[t].st = "done" /\ \A l \in Locks : lock[l] # t)

\* both locks are held, by different threads, while neither call has finished
AlwaysReturnsWitness ==
    /\ lock["node"] # 0 /\ lock["index"] # 0 /\ lock["node"] # lock["index"]
    /\ pc[lock["node"]].st = "held" /\ pc[lock["index"]].st = "held"

\* C19: backing-store operations are linearizable. Once the concurrent calls
\* on the store have returned, node_store is what the whole calls leave in
\* some serial order.
StoreLinearizable ==
    Quiescent => \E r \in SerialOutcomes : r.s.store = node_store

====
